---- MODULE Spec2Model ----
(***************************************************************************)
(* Model of the notification delivery pipeline of the notification         *)
(* microservice: the dispatcher task (send_notification_task /             *)
(* _send_notification), the terminal task (mark_notification_failed), the  *)
(* cancel endpoint (revoke_notification), the inbound provider callback    *)
(* (receive_msg91_webhook) and the webhook delivery engine                 *)
(* (send_webhook_notification / send_single_webhook /                      *)
(* check_webhook_deliveries).                                              *)
(*                                                                         *)
(* The specifications of the module share its variables:                   *)
(*   Spec         one Notification row, its DeliveryAttempt rows, the      *)
(*                queued dispatcher tasks and the concurrent runs;         *)
(*   SpecWebhook  one WebhookDelivery row, the queued send_single_webhook  *)
(*                tasks, the concurrent runs and a clock in seconds;       *)
(*   SpecCancel   the same with the inbound callbacks and the cancel       *)
(*                requests of the delivered notification;                  *)
(*   SpecPair     the WebhookDelivery rows of one notification, one per    *)
(*                active webhook, as concurrent send_webhook_notification  *)
(*                runs create them;                                        *)
(*   SpecInbound  the inbound provider callback with its Redis guard       *)
(*                against duplicates, handled by concurrent requests;      *)
(*   SpecCreate   create_notification with its check for duplicates, for   *)
(*                the notifications of one channel and recipient;          *)
(*   SpecProvider the Provider rows as the seeding tool writes them, and   *)
(*                the provider resolution of a dispatcher run.             *)
(*                                                                         *)
(* Every worker run owns a SQLAlchemy session (expire_on_commit=False):    *)
(* the row it loaded stays cached, a commit writes only the columns whose  *)
(* value differs from the cached one, and refresh() re-reads the row.      *)
(***************************************************************************)
EXTENDS Integers, Sequences, FiniteSets, Bags, TLC

\* ---------------------------------------------------------------- bounds
MaxRuns == 2          \* concurrent dispatcher runs (worker slots)
MaxRedeliver == 1     \* broker redeliveries of a dispatcher message
MaxInbound == 2       \* inbound provider callbacks handled
MaxWRuns == 2         \* concurrent send_single_webhook runs (worker slots)
MaxEnqueue == 2       \* tasks queued by the sweep and by send_webhook_notification
MaxPosts == 8         \* POSTs made to the subscriber endpoint
MaxOutages == 1       \* stretches of time in which no worker takes a task
Outage == 14400       \* length of such a stretch, in seconds (4 h)
MaxWebhooks == 2      \* active webhooks of the service that owns the notification
MaxSwnRuns == 2       \* concurrent send_webhook_notification runs (worker slots)
MaxHandlers == 2      \* concurrent requests to the inbound callback endpoint
MaxWaits == 2         \* stretches of time between inbound callbacks
MaxRequests == 2      \* calls of create_notification
MaxCreators == 2      \* concurrent calls of create_notification
MaxSweeps == 3        \* runs of check_webhook_deliveries
MaxUnknown == 1       \* runs of mark_notification_failed for an id without row
MaxCrashes == 1       \* worker crashes between SENDING and the provider call

\* ------------------------------------------------------ program constants
MAX_RETRIES == 3
RETRY_DELAYS == <<5, 15, 30>>
IMMEDIATE_ATTEMPTS == 6
INITIAL_RETRY_DELAY == 60
MAX_RETRY_DELAY == 10800
BACKOFF_MULTIPLIER == 2

Runs == 1..MaxRuns

NotificationStatus ==
    {"PENDING", "QUEUED", "SENDING", "DELIVERED", "FAILED", "SEEN", "CANCELLED"}

\* Texts an error_message column can hold (NoError is NULL).
NoError == "none"
ErrorTexts == {"provider_error", "exception_text", "max_retries",
               "bounce_reason", "revoked"}

\* event titles MSG91 sends, lower-cased; "unsubscribed" stands for any
\* title the handler has no status for
EventTitles == {"queued", "sent", "delivered", "bounced", "failed",
                "opened", "clicked", "unsubscribed"}

VARIABLES
    notif,          \* the Notification row
    attempts,       \* the DeliveryAttempt rows of the notification, as a bag
    dtasks,         \* queued send_notification_task messages, by request.retries
    mtasks,         \* queued mark_notification_failed messages
    druns,          \* the dispatcher runs in progress, one per worker slot
    providerCalls,  \* number of provider send calls made
    providerOk,     \* some provider send call reported success
    redeliveries,   \* number of broker redeliveries so far
    inboundCount,   \* number of inbound callbacks handled
    cancelAccepted, \* a cancel request has been accepted at some time
    noopRuns,       \* some dispatcher run ended at the status check
    cancelledPending, \* a cancel request has been accepted for the PENDING row
    countdown,      \* countdown of the latest self.retry, in seconds
    failedEvents,   \* number of "failed" events POSTed, by webhook
    unknownMarks,   \* number of mark_notification_failed runs for an id without row
    msg91Events,    \* number of callbacks for which send_service_webhooks has POSTed the event
    deliveredAt,    \* delivered_at of the notification: the number of the callback at
                    \* whose arrival it was written, 0 for NULL
    failedPosts,    \* number of POSTs of send_webhook_immediately that were not
                    \* answered with 200, by webhook
    crashes         \* number of worker crashes so far

VARIABLES
    now,            \* the clock, in seconds
    wd,             \* the WebhookDelivery row of one (webhook, notification) pair
    wntasks,        \* queued send_webhook_notification messages
    wtasks,         \* queued send_single_webhook messages, a bag of etas
    wruns,          \* the send_single_webhook runs in progress, one per worker slot
    posts,          \* number of POSTs made to the subscriber endpoint
    endpoint,       \* how the subscriber endpoint answers
    enqueued,       \* number of tasks queued by the sweep and by send_webhook_notification
    outages         \* number of worker outages so far

VARIABLES
    deliveries,     \* number of WebhookDelivery rows of the notification, by webhook
    swntasks,       \* queued send_webhook_notification messages
    swnruns,        \* the send_webhook_notification runs in progress, one per worker slot
    sswtasks,       \* number of send_single_webhook messages queued by these runs
    sweeps,         \* number of runs of check_webhook_deliveries so far
    otherTriggered  \* number of send_webhook_notification messages queued for another
                    \* DELIVERED notification, which has no WebhookDelivery

VARIABLES
    wkeys,          \* the webhook:msg91:* keys stored in Redis, with their expiry
    handlers,       \* the requests to the inbound callback endpoint in progress
    lastApplied,    \* when a callback of each event title was last applied
    waits           \* number of stretches of time waited so far

VARIABLES
    providers,      \* the Provider rows, by id
    resolved        \* the latest provider resolution of a dispatcher run

VARIABLES
    stored,         \* the notifications stored for one channel and recipient
    ctasks,         \* queued send_notification_task messages of these notifications
    creqs,          \* the create_notification calls in progress
    call,           \* the arguments and the outcome of the latest call
    requests,       \* number of create_notification calls so far
    cwindow         \* by slot: the deduplication_window with which its latest call has
                    \* passed the check for duplicates, NoWindow if none has

nvars == <<notif, attempts, dtasks, mtasks, druns, providerCalls,
           providerOk, redeliveries, inboundCount,
           cancelAccepted, noopRuns, cancelledPending, countdown,
           failedEvents, unknownMarks, msg91Events,
           deliveredAt, failedPosts, crashes>>

wvars == <<now, wd, wntasks, wtasks, wruns, posts, endpoint, enqueued, outages>>

pvars == <<deliveries, swntasks, swnruns, sswtasks, sweeps, otherTriggered>>

ivars == <<wkeys, handlers, lastApplied, waits>>

cvars == <<stored, ctasks, creqs, call, requests, cwindow>>

rvars == <<providers, resolved>>

vars == <<nvars, wvars, pvars, ivars, cvars, rvars>>

\* ------------------------------------------------- the Notification store

\* Notification(...) as NotificationRepository.create stores it: the column
\* defaults of the model.
NewNotification ==
    [status |-> "PENDING", retry_count |-> 0, error_message |-> NoError,
     external_id |-> FALSE]

\* session.commit(): the UPDATE carries the columns whose value in the
\* session differs from the value the session loaded; the other columns of
\* the stored row keep what other sessions committed meanwhile.
Flush(row, loaded, changed) ==
    [f \in DOMAIN row |-> IF changed[f] # loaded[f] THEN changed[f] ELSE row[f]]

\* an update_status that counts every write of FAILED in retry_count
UpdateStatusCounting(row, loaded, status, error_message, external_id) ==
    LET changed ==
            [loaded EXCEPT
                !.status = status,
                !.retry_count = IF status = "FAILED" THEN @ + 1 ELSE @,
                !.error_message =
                    IF status = "FAILED" /\ error_message # NoError
                    THEN error_message ELSE @,
                !.external_id = IF external_id THEN TRUE ELSE @]
    IN  Flush(row, loaded, changed)

\* NotificationRepository.update_status on the session that holds `loaded`:
\* get_by_id returns the cached object, the fields are assigned, the commit
\* flushes them and refresh() re-reads the row.  The result is the stored
\* row, which is also the session's copy afterwards.
UpdateStatus(row, loaded, status, error_message, external_id) ==
    LET changed ==
            [loaded EXCEPT
                !.status = status,
                !.error_message =
                    IF status = "FAILED" /\ error_message # NoError
                    THEN error_message ELSE @,
                !.external_id = IF external_id THEN TRUE ELSE @]
    IN  Flush(row, loaded, changed)

\* ------------------------------------------------------- the dispatcher

\* a status check that lets a FAILED row through as well
EligibleOrFailed(status) == status \in {"PENDING", "QUEUED", "FAILED"}

\* _send_notification goes on only for these statuses
Eligible(status) == status \in {"PENDING", "QUEUED"}

IdleRun ==
    [pc |-> "idle", retries |-> 0, sess |-> NewNotification]

Queued(tasks) == tasks[0] + tasks[1] + tasks[2] + tasks[3]

\* DeliveryAttempt(notification_id, status, error_message)
DeliveryAttempt(status, error_message) ==
    [status |-> status, error_message |-> error_message]

\* a session.add that stores the row twice
AddAttemptTwice(rows, row) == rows (+) SetToBag({row}) (+) SetToBag({row})

\* session.add(row); commit
AddAttempt(rows, row) == rows (+) SetToBag({row})

\* the result of the run stored as a DeliveryAttempt row of its own
SetAttemptAsNewRow(rows, old, new) == rows (+) SetToBag({new})

\* the run's own DeliveryAttempt row, updated in place and committed
SetAttempt(rows, old, new) == (rows (-) SetToBag({old})) (+) SetToBag({new})

\* a countdown that takes the delay of the retry after this one
CountdownOfNext(k) ==
    LET retry_idx == IF k + 1 < Len(RETRY_DELAYS) - 1 THEN k + 1 ELSE Len(RETRY_DELAYS) - 1
    IN  RETRY_DELAYS[retry_idx + 1] * 60

\* send_notification_task, `except Exception` branch: countdown of the retry
\* for request.retries = k, in seconds
Countdown(k) ==
    LET retry_idx == IF k < Len(RETRY_DELAYS) - 1 THEN k ELSE Len(RETRY_DELAYS) - 1
    IN  RETRY_DELAYS[retry_idx + 1] * 60

\* send_notification_task, `except Exception` branch: self.retry while
\* request.retries < MAX_RETRIES ...
RetryTasks(tasks, k) ==
    IF k < MAX_RETRIES THEN [tasks EXCEPT ![k + 1] = @ + 1] ELSE tasks

\* ... else mark_notification_failed.delay
GiveUpTasks(n, k) == IF k < MAX_RETRIES THEN n ELSE n + 1

\* A worker takes a queued send_notification_task message (the free slot
\* with the lowest number: the slots are interchangeable) and
\* _send_notification loads the row; a row that is not eligible ends the run
\* with a normal return.  again: the message is late-acknowledged
\* (task_acks_late) and the broker hands it out once more after its
\* visibility timeout, so it stays queued.
DStart(r, k, again) ==
    /\ druns[r].pc = "idle"
    /\ \A q \in Runs : q < r => druns[q].pc # "idle"
    /\ dtasks[k] > 0
    /\ again => redeliveries < MaxRedeliver
    /\ redeliveries' = IF again THEN redeliveries + 1 ELSE redeliveries
    /\ dtasks' = IF again THEN dtasks ELSE [dtasks EXCEPT ![k] = @ - 1]
    /\ IF Eligible(notif.status)
       THEN /\ druns' = [druns EXCEPT ![r] =
                            [pc |-> "sending", retries |-> k, sess |-> notif]]
            /\ noopRuns' = noopRuns
       ELSE /\ druns' = druns
            /\ noopRuns' = TRUE
    /\ UNCHANGED <<notif, attempts, mtasks, providerCalls, providerOk,
                   inboundCount, cancelAccepted, cancelledPending, countdown,
                   failedEvents, unknownMarks, msg91Events,
                   deliveredAt, failedPosts, crashes>>

\* update_status(SENDING) and the DeliveryAttempt row of this run
DSending(r) ==
    /\ druns[r].pc = "sending"
    /\ LET row == UpdateStatus(notif, druns[r].sess, "SENDING", NoError, FALSE)
       IN  /\ notif' = row
           /\ attempts' = AddAttempt(attempts, DeliveryAttempt("SENDING", NoError))
           /\ druns' = [druns EXCEPT ![r].pc = "provider", ![r].sess = row]
    /\ UNCHANGED <<dtasks, mtasks, providerCalls, providerOk, redeliveries,
                   inboundCount, cancelAccepted, noopRuns, cancelledPending,
                   countdown, failedEvents, unknownMarks, msg91Events,
                   deliveredAt, failedPosts, crashes>>

\* the worker dies while a run is between the commit of SENDING (with the
\* run's DeliveryAttempt) and the provider call: the run is lost.  Its
\* message is not acknowledged (task_acks_late), and the broker hands it out
\* again if it is a message that DStart has left queued.
WorkerCrash(r) ==
    /\ druns[r].pc = "provider"
    /\ crashes < MaxCrashes
    /\ crashes' = crashes + 1
    /\ druns' = [druns EXCEPT ![r] = IdleRun]
    /\ UNCHANGED <<notif, attempts, dtasks, mtasks, providerCalls, providerOk,
                   redeliveries, inboundCount, cancelAccepted, noopRuns,
                   cancelledPending, countdown, failedEvents, unknownMarks,
                   msg91Events, deliveredAt, failedPosts>>

ProviderOutcomes == {"success", "failure", "raises", "no_provider"}

\* str(e) of the exception a failed run ends with
ExceptionText == "exception_text"

\* the `except Exception as e` block of _send_notification: FAILED with
\* str(e) on the row
FailRow(row, sess, text) == UpdateStatus(row, sess, "FAILED", text, FALSE)

\* the row after provider resolution and the provider call.  A reported
\* failure is written twice: FAILED with the provider's error_message, then
\* by the except block with the text of the raised exception.
ProviderResult(row, sess, outcome, ids) ==
    LET reported == UpdateStatus(row, sess, "FAILED", "provider_error", ids)
    IN  CASE outcome = "success" -> UpdateStatus(row, sess, "QUEUED", NoError, ids)
          [] outcome = "failure" -> FailRow(reported, reported, ExceptionText)
          [] OTHER -> FailRow(row, sess, ExceptionText)

\* provider resolution, the provider call, the result written to the row and
\* to the run's DeliveryAttempt, and what send_notification_task does with
\* the exception of a failed run.  ids: the provider response carries ids.
DProvider(r, outcome, ids) ==
    /\ druns[r].pc = "provider"
    /\ ids => outcome \in {"success", "failure"}
    /\ LET k == druns[r].retries
           failed == outcome # "success"
       IN  /\ notif' = ProviderResult(notif, druns[r].sess, outcome, ids)
           /\ attempts' = SetAttempt(attempts, DeliveryAttempt("SENDING", NoError),
                              IF failed
                              THEN DeliveryAttempt("FAILED", ExceptionText)
                              ELSE DeliveryAttempt("QUEUED", NoError))
           /\ providerCalls' = IF outcome # "no_provider"
                               THEN providerCalls + 1 ELSE providerCalls
           /\ providerOk' = (providerOk \/ ~failed)
           /\ dtasks' = IF failed THEN RetryTasks(dtasks, k) ELSE dtasks
           /\ mtasks' = IF failed THEN GiveUpTasks(mtasks, k) ELSE mtasks
           /\ countdown' = IF failed /\ k < MAX_RETRIES
                            THEN Countdown(k) ELSE countdown
    /\ druns' = [druns EXCEPT ![r] = IdleRun]
    /\ UNCHANGED <<redeliveries, inboundCount, cancelAccepted, noopRuns,
                   cancelledPending, failedEvents, unknownMarks, msg91Events,
                   deliveredAt, failedPosts, crashes>>

\* the Webhook rows: two active webhooks of the notification's service, an
\* inactive webhook of that service and an active webhook of another service
Subscribers == {"w1", "w2", "inactive", "other"}

\* the active webhooks of the notification's service
ActiveOfService == {"w1", "w2"}

\* select(Webhook).where(service_id == notification.service_id,
\* is_active == True): the rows come in no stated order
SelectedWebhooks == {<<"w1", "w2">>, <<"w2", "w1">>}

\* how a subscriber answers a POST: 200, another status, or no answer (the
\* client raises)
Answers == {"200", "500", "raises"}

\* the webhooks that send_webhook_immediately POSTs to: those of
\* `webhooks`, in order, up to the first whose answer is not 200.  For such
\* an answer the code runs `from app.tasks.webhook_tasks import
\* retry_webhook`; webhook_tasks defines no retry_webhook, so the statement
\* raises ImportError.  Raised in the `else` of the status check it is
\* caught by the `except Exception` of the same webhook, whose own import
\* raises it again: that one leaves the loop and ends in the outer `except
\* Exception`, which logs it.
RECURSIVE Posted(_, _)
Posted(webhooks, answer) ==
    IF webhooks = <<>> THEN {}
    ELSE IF answer[Head(webhooks)] # "200"
         THEN {Head(webhooks)}
         ELSE {Head(webhooks)} \cup Posted(Tail(webhooks), answer)

\* send_webhook_immediately(session, notification, "failed", ...)
SendWebhookImmediately(events, webhooks, answer) ==
    [w \in Subscribers |->
        IF w \in Posted(webhooks, answer) THEN events[w] + 1 ELSE events[w]]

\* the POSTs of send_webhook_immediately that end in its `else` branch
\* (another status than 200) or in its `except Exception` (the client raised)
NotAnswered200(failed, webhooks, answer) ==
    [w \in Subscribers |->
        IF w \in Posted(webhooks, answer) /\ answer[w] # "200"
        THEN failed[w] + 1 ELSE failed[w]]

\* the error_message _mark_notification_failed writes: "Max retries
\* exceeded: " followed by the text of the last exception
MaxRetriesText == "max_retries"

\* _mark_notification_failed for the stored notification, with the "failed"
\* event POSTed to the webhooks of the service
MarkFailed(webhooks, answer) ==
    /\ mtasks > 0
    /\ mtasks' = mtasks - 1
    /\ notif' = UpdateStatus(notif, notif, "FAILED", MaxRetriesText, FALSE)
    /\ attempts' = AddAttempt(attempts, DeliveryAttempt("FAILED", MaxRetriesText))
    /\ failedEvents' = SendWebhookImmediately(failedEvents, webhooks, answer)
    /\ failedPosts' = NotAnswered200(failedPosts, webhooks, answer)
    /\ UNCHANGED <<dtasks, druns, providerCalls, providerOk, redeliveries,
                   inboundCount, cancelAccepted, noopRuns, cancelledPending,
                   countdown, unknownMarks, msg91Events,
                   deliveredAt, crashes>>

\* _mark_notification_failed for an id that no Notification row has:
\* get_by_id returns None and the run returns
MarkFailedUnknown ==
    /\ unknownMarks < MaxUnknown
    /\ unknownMarks' = unknownMarks + 1
    /\ UNCHANGED <<notif, attempts, dtasks, mtasks, druns, providerCalls,
                   providerOk, redeliveries, inboundCount, cancelAccepted,
                   noopRuns, cancelledPending, countdown, failedEvents,
                   msg91Events,
                   deliveredAt, failedPosts, crashes>>

\* --------------------------------------------------------------- cancel

\* a cancel that accepts a DELIVERED notification
CanRevokeDelivered(status) == status # "CANCELLED"

CanRevoke(status) == status \notin {"DELIVERED", "CANCELLED"}

\* revoke_notification by the owning service: 400 for a DELIVERED or
\* CANCELLED row, else update_status(CANCELLED, "Revoked by user")
Revoke ==
    /\ CanRevoke(notif.status)
    /\ notif' = UpdateStatus(notif, notif, "CANCELLED", "revoked", FALSE)
    /\ cancelAccepted' = TRUE
    /\ cancelledPending' = (cancelledPending \/ notif.status = "PENDING")
    /\ UNCHANGED <<attempts, dtasks, mtasks, druns, providerCalls, providerOk,
                   redeliveries, inboundCount, noopRuns, countdown,
                   failedEvents, unknownMarks, msg91Events,
                   deliveredAt, failedPosts, crashes>>

\* ----------------------------------------------- inbound provider callback

\* status_mapping of receive_msg91_webhook; "none" is status_mapping.get
\* returning None
StatusMapping(event_title) ==
    CASE event_title = "queued" -> "QUEUED"
      [] event_title = "sent" -> "SENDING"
      [] event_title = "delivered" -> "DELIVERED"
      [] event_title \in {"bounced", "failed"} -> "FAILED"
      [] event_title \in {"opened", "clicked"} -> "SEEN"
      [] OTHER -> "none"

\* the row after the handler's assignments; reason: recipient.meta.reason
\* is present in the payload
ApplyEvent(row, event_title, reason) ==
    LET new_status == StatusMapping(event_title)
    IN  IF new_status = "none" THEN row
        ELSE [row EXCEPT
                !.status = new_status,
                !.error_message =
                    IF new_status = "FAILED" /\ reason THEN "bounce_reason" ELSE @]

\* delivered_at after the handler's assignments for the callback that
\* arrives at `at`.  The handler has assigned notification.status = new_status
\* before the SEEN branch tests `notification.status != DELIVERED`, so the
\* test reads SEEN.
DeliveredAt(delivered_at, event_title, at) ==
    LET new_status == StatusMapping(event_title)
        status == new_status
    IN  CASE new_status = "DELIVERED" -> at
          [] new_status = "SEEN" /\ status # "DELIVERED" -> at
          [] OTHER -> delivered_at

\* a handler that notifies the subscribers of every mapped event
StatusMapped(new_status, previous_status) == new_status # "none"

\* `if new_status and new_status != previous_status`
StatusChanged(new_status, previous_status) ==
    new_status # "none" /\ new_status # previous_status

\* receive_msg91_webhook for a callback that carries an id found in the
\* notification's external_id (without external_id no callback finds the
\* row) and whose dedup key (id, title, minute of arrival) is not stored, as
\* is the case for every callback that arrives in a minute of its own: the
\* row is updated, a DeliveryAttempt is added for the event, and
\* send_service_webhooks POSTs the event to the active webhooks of the
\* service (to the first of them at least) if the status has changed.
\* reason is read for a bounced or failed event only.
Inbound(event_title, reason) ==
    /\ inboundCount < MaxInbound
    /\ notif.external_id
    /\ reason => StatusMapping(event_title) = "FAILED"
    /\ inboundCount' = inboundCount + 1
    /\ notif' = ApplyEvent(notif, event_title, reason)
    /\ attempts' = AddAttempt(attempts,
          DeliveryAttempt(notif'.status,
              IF StatusMapping(event_title) = "FAILED"
              THEN notif'.error_message ELSE NoError))
    /\ msg91Events' =
            IF StatusChanged(StatusMapping(event_title), notif.status)
            THEN msg91Events + 1 ELSE msg91Events
    /\ deliveredAt' = DeliveredAt(deliveredAt, event_title, inboundCount + 1)
    /\ UNCHANGED <<dtasks, mtasks, druns, providerCalls, providerOk,
                   redeliveries, cancelAccepted, noopRuns, cancelledPending,
                   countdown, failedEvents, unknownMarks, failedPosts,
                   crashes>>

\* ------------------------------------------- the webhook delivery engine

WRuns == 1..MaxWRuns

Null == -1

\* datetime.utcnow() at the instant t: a datetime without tzinfo.  This is
\* also what a DateTime column (TIMESTAMP WITHOUT TIME ZONE) gives back.
UtcNow(t) == [t |-> t, tz |-> "naive"]

\* datetime.now(timezone.utc) at the instant t: a datetime with tzinfo
NowUtc(t) == [t |-> t, tz |-> "utc"]

\* a - b on datetimes raises TypeError ("can't subtract offset-naive and
\* offset-aware datetimes") when only one of them has tzinfo
SubtractRaises(a, b) == a.tz # b.tz

\* (a - b).total_seconds()
TotalSeconds(a, b) == a.t - b.t

\* no WebhookDelivery row is stored for the pair
NoDelivery ==
    [status |-> "ABSENT", attempt_count |-> 0, immediate_attempts |-> 0,
     next_retry_at |-> Null, created_at |-> UtcNow(Null),
     response_status_code |-> Null, error_message |-> NoError]

\* WebhookDelivery(webhook_id, notification_id, status=PENDING) with the
\* column defaults of the model
NewDelivery(t) ==
    [status |-> "PENDING", attempt_count |-> 0, immediate_attempts |-> 0,
     next_retry_at |-> Null, created_at |-> UtcNow(t),
     response_status_code |-> Null, error_message |-> NoError]

IdleWRun == [pc |-> "idle", sess |-> NoDelivery, cur |-> NoDelivery, is_immediate |-> FALSE]

\* answers of the endpoint: an HTTP status, or 0 for a request that raises
\* httpx.RequestError (timeout, connection error)
Endpoints == {"ok", "not_found", "rate_limited", "error", "timeout",
              "six_errors_then_ok", "flaky"}

\* the answers the endpoint can give to its n-th POST
Responses(e, n) ==
    CASE e = "ok" -> {200}
      [] e = "not_found" -> {404}
      [] e = "rate_limited" -> {429}
      [] e = "error" -> {500}
      [] e = "timeout" -> {0}
      [] e = "six_errors_then_ok" -> IF n <= 6 THEN {500} ELSE {200}
      [] OTHER -> {200, 500}

Min(a, b) == IF a < b THEN a ELSE b

\* delay of the retry after the attempt numbered attempt_count, once the
\* immediate attempts are used up
BackoffDelay(attempt_count) ==
    LET retry_number == IF attempt_count - IMMEDIATE_ATTEMPTS < 0
                        THEN 0 ELSE attempt_count - IMMEDIATE_ATTEMPTS
    IN  IF retry_number > 20 THEN MAX_RETRY_DELAY
        ELSE Min(INITIAL_RETRY_DELAY * (BACKOFF_MULTIPLIER ^ retry_number),
                 MAX_RETRY_DELAY)

\* "Check if we've exceeded 3 hours total"
BudgetExceeded(time_elapsed, delay) == time_elapsed + delay > MAX_RETRY_DELAY

\* an immediate budget that is one attempt short
RetriesImmediatelyButLast(is_immediate, immediate_attempts) ==
    is_immediate /\ immediate_attempts < IMMEDIATE_ATTEMPTS - 1

\* the failed attempt goes back to the queue at once
RetriesImmediately(is_immediate, immediate_attempts) ==
    is_immediate /\ immediate_attempts < IMMEDIATE_ATTEMPTS

\* a queued send_single_webhook message; a worker takes it once its eta has
\* come, so an eta that is not in the future is kept as Due
Due == 0

Task(eta) == IF eta <= now THEN Due ELSE eta

\* check_webhook_deliveries: RETRYING rows whose next_retry_at has passed are
\* queued again; a DELIVERED notification (delivered more than 5 minutes
\* ago) without any WebhookDelivery gets send_webhook_notification queued.
\* The notification is the row `notif`.
CheckWebhookDeliveries ==
    /\ enqueued < MaxEnqueue
    /\ LET due == wd.status = "RETRYING" /\ wd.next_retry_at # Null
                                         /\ wd.next_retry_at <= now
           missing == notif.status = "DELIVERED" /\ wd.status = "ABSENT"
       IN  /\ wtasks' = IF due THEN wtasks (+) SetToBag({Task(now)})
                        ELSE wtasks
           /\ wntasks' = IF missing THEN wntasks + 1 ELSE wntasks
           /\ enqueued' = IF due \/ missing THEN enqueued + 1 ELSE enqueued
    /\ UNCHANGED <<now, wd, wruns, posts, endpoint, outages>>

\* _send_webhook_notification_async for the notification and the one active
\* webhook of its service: a notification that is not DELIVERED ends the run
SendWebhookNotification ==
    /\ wntasks > 0
    /\ wntasks' = wntasks - 1
    /\ wd' = IF notif.status = "DELIVERED" /\ wd.status = "ABSENT"
             THEN NewDelivery(now) ELSE wd
    /\ wtasks' = IF notif.status # "DELIVERED" \/ wd.status = "ACKNOWLEDGED"
                 THEN wtasks
                 ELSE wtasks (+) SetToBag({Task(now)})
    /\ UNCHANGED <<now, wruns, posts, endpoint, enqueued, outages>>

\* counters of which only immediate_attempts is raised
RaiseImmediateOnly(row, immediate) ==
    [row EXCEPT !.immediate_attempts = @ + 1]

\* `delivery.attempt_count += 1`, and `delivery.immediate_attempts += 1` for
\* an immediate attempt
RaiseCounters(row, immediate) ==
    [row EXCEPT !.attempt_count = @ + 1,
                !.immediate_attempts = IF immediate THEN @ + 1 ELSE @]

\* _send_single_webhook_async up to the POST: the row is loaded, an
\* ACKNOWLEDGED row ends the run, else the counters are raised in the session
WLoad(r, t) ==
    /\ wruns[r].pc = "idle"
    /\ \A q \in WRuns : q < r => wruns[q].pc # "idle"
    /\ BagIn(t, wtasks)
    /\ t = Due
    /\ posts + Cardinality({q \in WRuns : wruns[q].pc = "post"}) < MaxPosts
    /\ wtasks' = wtasks (-) SetToBag({t})
    /\ IF wd.status = "ACKNOWLEDGED"
       THEN wruns' = wruns
       ELSE LET immediate == wd.immediate_attempts < IMMEDIATE_ATTEMPTS
            IN  wruns' = [wruns EXCEPT ![r] =
                    [pc |-> "post", sess |-> wd,
                     cur |-> RaiseCounters(wd, immediate),
                     is_immediate |-> immediate]]
    /\ UNCHANGED <<now, wd, wntasks, posts, endpoint, enqueued, outages>>

\* the row the run commits after the answer resp, with the response recorded
Answered(cur, resp) ==
    IF resp = 0 THEN [cur EXCEPT !.error_message = "request_error"]
    ELSE [cur EXCEPT !.response_status_code = resp,
                     !.error_message = IF resp = 200 THEN @ ELSE "http_error"]

\* the POST, its answer, the commit and the task.retry call.  In the backoff
\* branch the time elapsed is datetime.now(timezone.utc) - delivery.created_at;
\* when that raises, the `except Exception` block rolls the session back and
\* re-raises: nothing of the run is committed and nothing is queued.
WPost(r, resp) ==
    /\ wruns[r].pc = "post"
    /\ resp \in Responses(endpoint, posts + 1)
    /\ posts' = posts + 1
    /\ LET sess == wruns[r].sess
           cur == Answered(wruns[r].cur, resp)
           delay == BackoffDelay(cur.attempt_count)
           time_elapsed == TotalSeconds(NowUtc(now), cur.created_at)
       IN  IF resp = 200
           THEN /\ wd' = Flush(wd, sess, [cur EXCEPT !.status = "ACKNOWLEDGED"])
                /\ wtasks' = wtasks
           ELSE IF RetriesImmediately(wruns[r].is_immediate, cur.immediate_attempts)
           THEN /\ wd' = Flush(wd, sess, [cur EXCEPT !.status = "RETRYING"])
                /\ wtasks' = wtasks (+) SetToBag({Task(now)})
           ELSE IF SubtractRaises(NowUtc(now), cur.created_at)
           THEN /\ wd' = wd
                /\ wtasks' = wtasks
           ELSE IF BudgetExceeded(time_elapsed, delay)
           THEN /\ wd' = Flush(wd, sess, [cur EXCEPT !.status = "FAILED",
                                                    !.error_message = "exceeded"])
                /\ wtasks' = wtasks
           ELSE /\ wd' = Flush(wd, sess, [cur EXCEPT !.status = "RETRYING",
                                                    !.next_retry_at = now + delay])
                /\ wtasks' = wtasks (+) SetToBag({Task(now + delay)})
    /\ wruns' = [wruns EXCEPT ![r] = IdleWRun]
    /\ UNCHANGED <<now, wntasks, endpoint, enqueued, outages>>

RECURSIVE Copies(_, _)
\* the number of messages of the bag `tasks` among the kinds in S
Copies(S, tasks) ==
    IF S = {} THEN 0
    ELSE LET x == CHOOSE y \in S : TRUE
         IN  tasks[x] + Copies(S \ {x}, tasks)

\* the queued messages as the clock shows t
AtTime(tasks, t) ==
    LET due(x) == IF x <= t THEN Due ELSE x
        S == BagToSet(tasks)
    IN  [y \in {due(x) : x \in S} |-> Copies({x \in S : due(x) = y}, tasks)]

\* no worker takes a task for Outage seconds
WorkerOutage ==
    /\ wd.status # "ABSENT"
    /\ \A r \in WRuns : wruns[r].pc = "idle"
    /\ outages < MaxOutages
    /\ outages' = outages + 1
    /\ now' = now + Outage
    /\ wtasks' = AtTime(wtasks, now + Outage)
    /\ UNCHANGED <<wd, wntasks, wruns, posts, endpoint, enqueued>>

\* ------------------------------- creation of the WebhookDelivery rows

Webhooks == 1..MaxWebhooks

SwnRuns == 1..MaxSwnRuns

IdleSwnRun == [pc |-> "idle", webhook |-> 0]

\* scalar_one_or_none() on a result of n rows: None, the row, or
\* MultipleResultsFound
ScalarOneOrNone(n) ==
    IF n = 0 THEN "none" ELSE IF n = 1 THEN "one" ELSE "raises"

RECURSIVE SumRows(_, _)
\* the number of WebhookDelivery rows of the notification for the webhooks 1..w
SumRows(rows, w) == IF w = 0 THEN 0 ELSE rows[w] + SumRows(rows, w - 1)

\* check_webhook_deliveries, second half.  The query selects the DELIVERED
\* notification (delivered more than 5 minutes ago) and another one,
\* delivered as long ago, whose service has no active webhook, so that it
\* never has a WebhookDelivery; the query has no ORDER BY, and other_first
\* says which of the two the loop takes first.  send_webhook_notification is
\* queued for a notification without WebhookDelivery; for one with more
\* than one row scalar_one_or_none raises, which ends the loop in the
\* `except Exception` of the sweep, where it is logged.
SweepMissing(other_first) ==
    /\ sweeps < MaxSweeps
    /\ sweeps' = sweeps + 1
    /\ LET existing == ScalarOneOrNone(SumRows(deliveries, MaxWebhooks))
       IN  /\ swntasks' = IF existing = "none" THEN swntasks + 1 ELSE swntasks
           /\ otherTriggered' = IF other_first \/ existing # "raises"
                                 THEN otherTriggered + 1 ELSE otherTriggered
    /\ UNCHANGED <<deliveries, swnruns, sswtasks>>

\* the loop of _send_webhook_notification_async goes on with the webhook
\* after w, or the run ends
LoopOn(r, w) ==
    IF w < MaxWebhooks
    THEN [swnruns EXCEPT ![r] = [pc |-> "select", webhook |-> w + 1]]
    ELSE [swnruns EXCEPT ![r] = IdleSwnRun]

\* a worker takes a send_webhook_notification message: the notification is
\* DELIVERED and the active webhooks of its service are loaded
SwnStart(r) ==
    /\ swnruns[r].pc = "idle"
    /\ \A q \in SwnRuns : q < r => swnruns[q].pc # "idle"
    /\ swntasks > 0
    /\ swntasks' = swntasks - 1
    /\ swnruns' = [swnruns EXCEPT ![r] = [pc |-> "select", webhook |-> 1]]
    /\ UNCHANGED <<deliveries, sswtasks, sweeps, otherTriggered>>

\* the delivery query for the webhook of this turn of the loop.  An
\* existing row (PENDING: no send_single_webhook run has acknowledged it) is
\* queued again; without a row the run goes on to create one; with several
\* rows scalar_one_or_none raises and the run ends with the exception
SwnSelect(r) ==
    /\ swnruns[r].pc = "select"
    /\ LET w == swnruns[r].webhook
           existing_delivery == ScalarOneOrNone(deliveries[w])
       IN  CASE existing_delivery = "none" ->
                   /\ swnruns' = [swnruns EXCEPT ![r].pc = "insert"]
                   /\ sswtasks' = sswtasks
             [] existing_delivery = "one" ->
                   /\ swnruns' = LoopOn(r, w)
                   /\ sswtasks' = sswtasks + 1
             [] OTHER ->
                   /\ swnruns' = [swnruns EXCEPT ![r] = IdleSwnRun]
                   /\ sswtasks' = sswtasks
    /\ UNCHANGED <<deliveries, swntasks, sweeps, otherTriggered>>

\* db.add(WebhookDelivery(...)), commit, refresh and
\* send_single_webhook.delay for the new row
SwnInsert(r) ==
    /\ swnruns[r].pc = "insert"
    /\ LET w == swnruns[r].webhook
       IN  /\ deliveries' = [deliveries EXCEPT ![w] = @ + 1]
           /\ swnruns' = LoopOn(r, w)
    /\ sswtasks' = sswtasks + 1
    /\ UNCHANGED <<swntasks, sweeps, otherTriggered>>

\* ------------------------------- the guard against duplicate callbacks

Handlers == 1..MaxHandlers

WEBHOOK_KEY_TTL == 10800

\* the times waited between callbacks: within the minute, a minute, an hour,
\* and the life of a key
Waits == {30, 60, 3600, WEBHOOK_KEY_TTL}

\* datetime.utcnow().strftime('%Y-%m-%d %H:%M') at the instant t
MinuteOf(t) == t \div 60

\* generate_webhook_key(unique_id, event_title, timestamp) for the callbacks
\* of the notification: the md5 of the three parts, which differs as soon as
\* one part differs
GenerateWebhookKey(event_title, timestamp) ==
    [event_title |-> event_title, timestamp |-> timestamp]

\* is_webhook_processed: redis_client.exists(webhook_key) at the instant t
IsWebhookProcessed(keys, webhook_key, t) ==
    \E k \in keys : k.key = webhook_key /\ k.expires > t

\* mark_webhook_processed: redis_client.setex(webhook_key, 10800, "processed")
MarkWebhookProcessed(keys, webhook_key, t) ==
    {k \in keys : k.key # webhook_key}
        \cup {[key |-> webhook_key, expires |-> t + WEBHOOK_KEY_TTL]}

IdleHandler == [pc |-> "idle", key |-> GenerateWebhookKey("", 0)]

\* receive_msg91_webhook up to the guard: a callback for the notification
\* with the title event_title arrives; its key is built from the minute of
\* arrival; a stored key ends the request ("Duplicate webhook ignored")
InboundCheck(h, event_title) ==
    /\ handlers[h].pc = "idle"
    /\ \A q \in Handlers : q < h => handlers[q].pc # "idle"
    /\ notif.external_id
    /\ inboundCount + Cardinality({q \in Handlers : handlers[q].pc # "idle"})
            < MaxInbound
    /\ LET webhook_key == GenerateWebhookKey(event_title, MinuteOf(now))
       IN  handlers' = IF IsWebhookProcessed(wkeys, webhook_key, now)
                       THEN handlers
                       ELSE [handlers EXCEPT ![h] =
                                [pc |-> "mark", key |-> webhook_key]]
    /\ UNCHANGED <<wkeys, lastApplied, waits>>

\* receive_msg91_webhook after the guard: the key is stored, the
\* notification is found by its external_id and updated, and a
\* DeliveryAttempt is added for the event
InboundProcess(h, reason) ==
    /\ handlers[h].pc = "mark"
    /\ wkeys' = MarkWebhookProcessed(wkeys, handlers[h].key, now)
    /\ Inbound(handlers[h].key.event_title, reason)
    /\ lastApplied' = [lastApplied EXCEPT ![handlers[h].key.event_title] = now]
    /\ handlers' = [handlers EXCEPT ![h] = IdleHandler]
    /\ UNCHANGED waits

\* time passes while no request is in progress; Redis drops the keys whose
\* life is over
Wait(d) ==
    /\ waits < MaxWaits
    /\ \A h \in Handlers : handlers[h].pc = "idle"
    /\ waits' = waits + 1
    /\ now' = now + d
    /\ wkeys' = {k \in wkeys : k.expires > now + d}
    /\ UNCHANGED <<handlers, lastApplied>>

\* ------------------------------------------------- create_notification

Creators == 1..MaxCreators

DEDUPLICATION_WINDOW_MINUTES == 30

\* deduplication_window=None
NoWindow == -1

\* the windows a caller passes, in minutes
Windows == {NoWindow, 1, DEDUPLICATION_WINDOW_MINUTES}

\* the times waited between calls: more than the short window, and the
\* default window to the second
CreateWaits == {90, DEDUPLICATION_WINDOW_MINUTES * 60}

\* the contents sent to the recipient
Contents == {"a", "b"}

\* a check for duplicates that counts FAILED notifications too
IsDuplicateOfAny(rows, content, window_minutes, t) ==
    LET time_threshold == t - window_minutes * 60
    IN  \E i \in DOMAIN rows :
            /\ rows[i].content = content
            /\ rows[i].created_at >= time_threshold

\* _is_duplicate_notification at the instant t: the count of the stored
\* notifications with the same recipient, type, content (and subject) that
\* were created at or after now - window and are not FAILED is above zero
IsDuplicateNotification(rows, content, window_minutes, t) ==
    LET time_threshold == t - window_minutes * 60
    IN  \E i \in DOMAIN rows :
            /\ rows[i].content = content
            /\ rows[i].created_at >= time_threshold
            /\ rows[i].status # "FAILED"

\* create_notification runs the check only for a call with
\* check_duplicates and a deduplication_window
ChecksDuplicates(check_duplicates, deduplication_window) ==
    check_duplicates /\ deduplication_window # NoWindow

IdleCreator == [pc |-> "idle", content |-> "a"]

NoCall ==
    [content |-> "a", check_duplicates |-> FALSE,
     deduplication_window |-> NoWindow, result |-> "none"]

\* create_notification up to the check for duplicates: a duplicate raises
\* ValidationException, else the call goes on to store the notification
CreateCheck(r, content, check_duplicates, deduplication_window) ==
    /\ creqs[r].pc = "idle"
    /\ \A q \in Creators : q < r => creqs[q].pc # "idle"
    /\ requests < MaxRequests
    /\ requests' = requests + 1
    /\ LET is_duplicate ==
               /\ ChecksDuplicates(check_duplicates, deduplication_window)
               /\ IsDuplicateNotification(stored, content, deduplication_window, now)
       IN  /\ call' = [content |-> content, check_duplicates |-> check_duplicates,
                       deduplication_window |-> deduplication_window,
                       result |-> IF is_duplicate THEN "ValidationException"
                                  ELSE "passed"]
           /\ creqs' = IF is_duplicate THEN creqs
                       ELSE [creqs EXCEPT ![r] = [pc |-> "insert", content |-> content]]
           /\ cwindow' = [cwindow EXCEPT ![r] =
                            IF ChecksDuplicates(check_duplicates, deduplication_window)
                               /\ ~is_duplicate
                            THEN deduplication_window ELSE NoWindow]
    /\ UNCHANGED <<stored, ctasks>>

\* notification_repo.create_*_notification (the row is committed with the
\* column defaults: PENDING, created_at = utcnow()) and
\* send_notification_task.delay
CreateInsert(r) ==
    /\ creqs[r].pc = "insert"
    /\ stored' = Append(stored, [content |-> creqs[r].content,
                                 status |-> "PENDING", created_at |-> now])
    /\ ctasks' = ctasks + 1
    /\ creqs' = [creqs EXCEPT ![r] = IdleCreator]
    /\ UNCHANGED <<call, requests, cwindow>>

\* the dispatcher run of the stored notification i, as far as this store
\* sees it: the provider accepts the notification (QUEUED) or the run fails
\* (FAILED)
Dispatched(i, status) ==
    /\ i \in DOMAIN stored
    /\ stored[i].status = "PENDING"
    /\ ctasks > 0
    /\ ctasks' = ctasks - 1
    /\ stored' = [stored EXCEPT ![i].status = status]
    /\ UNCHANGED <<creqs, call, requests, cwindow>>

\* --------------------------------------------------- provider resolution

\* NotificationType values a provider can list in supported_types
Types == {"sms", "email"}

\* ids of Provider rows; the row of "msg91" has the name msg91, and so on
\* (name is unique).  "gone" is an id no row ever has.
ProviderIds == {"msg91", "mock", "twilio"}
NoProviderId == "null"
ExplicitIds == ProviderIds \cup {"gone", NoProviderId}

NoProvider == [exists |-> FALSE, is_active |-> FALSE, supported_types |-> {}]

\* Provider(**data) with the data of the seeding tool
ProviderRow(supported_types, is_active) ==
    [exists |-> TRUE, is_active |-> is_active, supported_types |-> supported_types]

\* ProviderRepository.get_provider: session.get(Provider, id), whatever
\* is_active and supported_types are
GetProvider(rows, provider_id) ==
    IF provider_id \in ProviderIds /\ rows[provider_id].exists
    THEN provider_id ELSE NoProviderId

\* provider resolution of _send_notification for a notification with this
\* provider_id: the id of the provider the message is sent through, or the
\* exception.  Without a provider_entity from get_provider the code calls
\* provider_repo.get_active_providers, which ProviderRepository does not
\* define: AttributeError.  A provider_entity is used if its name is msg91
\* or mock.
ResolveProvider(rows, provider_id) ==
    LET provider_entity ==
            IF provider_id # NoProviderId THEN GetProvider(rows, provider_id)
            ELSE NoProviderId
    IN  IF provider_entity = NoProviderId THEN "AttributeError"
        ELSE IF provider_entity \in {"msg91", "mock"} THEN provider_entity
        ELSE "UnknownProviderType"

ResolutionErrors == {"AttributeError", "UnknownProviderType"}

NoResolution ==
    [provider_id |-> NoProviderId, type |-> "sms", row |-> NoProvider,
     result |-> "none"]

\* tools/seed_provider.py: the row of this name is created, or updated with
\* the data entered
SeedProvider(p, supported_types, is_active) ==
    /\ providers' = [providers EXCEPT ![p] = ProviderRow(supported_types, is_active)]
    /\ UNCHANGED resolved

\* a dispatcher run resolves the provider of a notification of this type
\* and provider_id
Resolve(provider_id, type) ==
    /\ resolved' =
            [provider_id |-> provider_id, type |-> type,
             row |-> IF provider_id \in ProviderIds THEN providers[provider_id]
                     ELSE NoProvider,
             result |-> ResolveProvider(providers, provider_id)]
    /\ UNCHANGED providers

\* ----------------------------------------------------- the specifications

\* ProviderRepository.seed_default_providers has run: msg91 and mock are
\* active and support every type
RInit ==
    /\ providers = [p \in ProviderIds |->
                        IF p \in {"msg91", "mock"} THEN ProviderRow(Types, TRUE)
                        ELSE NoProvider]
    /\ resolved = NoResolution

\* NotificationService.create_notification has stored the notification and
\* queued its send_notification_task
NInit ==
    /\ notif = NewNotification
    /\ attempts = EmptyBag
    /\ dtasks = [k \in 0..MAX_RETRIES |-> IF k = 0 THEN 1 ELSE 0]
    /\ mtasks = 0
    /\ druns = [r \in Runs |-> IdleRun]
    /\ providerCalls = 0
    /\ providerOk = FALSE
    /\ redeliveries = 0
    /\ inboundCount = 0
    /\ cancelAccepted = FALSE
    /\ noopRuns = FALSE
    /\ cancelledPending = FALSE
    /\ countdown = Null
    /\ failedEvents = [w \in Subscribers |-> 0]
    /\ unknownMarks = 0
    /\ msg91Events = 0
    /\ deliveredAt = 0
    /\ failedPosts = [w \in Subscribers |-> 0]
    /\ crashes = 0

\* the service of the notification has one active webhook, and no
\* WebhookDelivery exists yet
WInit ==
    /\ now = 0
    /\ wd = NoDelivery
    /\ wntasks = 0
    /\ wtasks = EmptyBag
    /\ wruns = [r \in WRuns |-> IdleWRun]
    /\ posts = 0
    /\ enqueued = 0
    /\ outages = 0

\* no WebhookDelivery exists for the DELIVERED notification, whose service
\* has MaxWebhooks active webhooks
PInit ==
    /\ deliveries = [w \in Webhooks |-> 0]
    /\ swntasks = 0
    /\ swnruns = [r \in SwnRuns |-> IdleSwnRun]
    /\ sswtasks = 0
    /\ sweeps = 0
    /\ otherTriggered = 0

\* no inbound callback has arrived
IInit ==
    /\ wkeys = {}
    /\ handlers = [h \in Handlers |-> IdleHandler]
    /\ lastApplied = [e \in EventTitles |-> Null]
    /\ waits = 0

\* the provider has accepted the notification: the dispatcher run left it
\* QUEUED with the provider's ids in external_id and one DeliveryAttempt
AcceptedNotification ==
    [NewNotification EXCEPT !.status = "QUEUED", !.external_id = TRUE]

\* ... and the provider's "delivered" callback has been applied to it
DeliveredNotification ==
    ApplyEvent(AcceptedNotification, "delivered", FALSE)

\* the notification has been DELIVERED for more than 5 minutes: one
\* dispatcher run and one inbound callback are behind it
NDelivered ==
    /\ notif = DeliveredNotification
    /\ attempts = SetToBag({DeliveryAttempt("QUEUED", NoError),
                            DeliveryAttempt("DELIVERED", NoError)})
    /\ dtasks = [k \in 0..MAX_RETRIES |-> 0]
    /\ mtasks = 0
    /\ druns = [r \in Runs |-> IdleRun]
    /\ providerCalls = 1
    /\ providerOk = TRUE
    /\ redeliveries = 0
    /\ inboundCount = 1
    /\ cancelAccepted = FALSE
    /\ noopRuns = FALSE
    /\ cancelledPending = FALSE
    /\ countdown = Null
    /\ failedEvents = [w \in Subscribers |-> 0]
    /\ unknownMarks = 0
    /\ msg91Events = 1
    /\ deliveredAt = 1
    /\ failedPosts = [w \in Subscribers |-> 0]
    /\ crashes = 0

\* no notification is stored for the recipient
CInit ==
    /\ stored = <<>>
    /\ ctasks = 0
    /\ creqs = [r \in Creators |-> IdleCreator]
    /\ call = NoCall
    /\ requests = 0
    /\ cwindow = [r \in Creators |-> NoWindow]

NNext ==
    \/ UNCHANGED <<wvars, pvars, ivars, cvars, rvars>> /\ \E r \in Runs, k \in 0..MAX_RETRIES, again \in BOOLEAN :
            DStart(r, k, again)
    \/ UNCHANGED <<wvars, pvars, ivars, cvars, rvars>> /\ \E r \in Runs : DSending(r)
    \/ UNCHANGED <<wvars, pvars, ivars, cvars, rvars>> /\ \E r \in Runs : WorkerCrash(r)
    \/ UNCHANGED <<wvars, pvars, ivars, cvars, rvars>> /\ \E r \in Runs, outcome \in ProviderOutcomes, ids \in BOOLEAN :
            DProvider(r, outcome, ids)
    \/ UNCHANGED <<wvars, pvars, ivars, cvars, rvars>>
            /\ \E webhooks \in SelectedWebhooks, answer \in [ActiveOfService -> Answers] :
                    MarkFailed(webhooks, answer)
    \/ UNCHANGED <<wvars, pvars, ivars, cvars, rvars>> /\ MarkFailedUnknown
    \/ UNCHANGED <<wvars, pvars, ivars, cvars, rvars>> /\ Revoke
    \/ UNCHANGED <<wvars, pvars, ivars, cvars, rvars>> /\ \E event_title \in EventTitles, reason \in BOOLEAN :
            Inbound(event_title, reason)

WNext ==
    \/ UNCHANGED <<nvars, pvars, ivars, cvars, rvars>> /\ CheckWebhookDeliveries
    \/ UNCHANGED <<nvars, pvars, ivars, cvars, rvars>> /\ SendWebhookNotification
    \/ UNCHANGED <<nvars, pvars, ivars, cvars, rvars>> /\ \E r \in WRuns : \E t \in BagToSet(wtasks) : WLoad(r, t)
    \/ UNCHANGED <<nvars, pvars, ivars, cvars, rvars>> /\ \E r \in WRuns, resp \in {0, 200, 404, 429, 500} : WPost(r, resp)
    \/ UNCHANGED <<nvars, pvars, ivars, cvars, rvars>> /\ WorkerOutage

PNext ==
    \/ UNCHANGED <<nvars, wvars, ivars, cvars, rvars>> /\ \E other_first \in BOOLEAN : SweepMissing(other_first)
    \/ UNCHANGED <<nvars, wvars, ivars, cvars, rvars>> /\ \E r \in SwnRuns : SwnStart(r)
    \/ UNCHANGED <<nvars, wvars, ivars, cvars, rvars>> /\ \E r \in SwnRuns : SwnSelect(r)
    \/ UNCHANGED <<nvars, wvars, ivars, cvars, rvars>> /\ \E r \in SwnRuns : SwnInsert(r)

wrest == <<wd, wntasks, wtasks, wruns, posts, endpoint, enqueued, outages>>

INext ==
    \/ UNCHANGED <<nvars, now, wrest, pvars, cvars, rvars>>
            /\ \E h \in Handlers, event_title \in EventTitles : InboundCheck(h, event_title)
    \/ UNCHANGED <<now, wrest, pvars, cvars, rvars>>
            /\ \E h \in Handlers, reason \in BOOLEAN : InboundProcess(h, reason)
    \/ UNCHANGED <<nvars, wrest, pvars, cvars, rvars>> /\ \E d \in Waits : Wait(d)

CNext ==
    \/ UNCHANGED <<nvars, wvars, pvars, ivars, rvars>>
            /\ \E r \in Creators, content \in Contents, check_duplicates \in BOOLEAN,
                  deduplication_window \in Windows :
                    CreateCheck(r, content, check_duplicates, deduplication_window)
    \/ UNCHANGED <<nvars, wvars, pvars, ivars, rvars>> /\ \E r \in Creators : CreateInsert(r)
    \/ UNCHANGED <<nvars, wvars, pvars, ivars, rvars>>
            /\ \E i \in 1..MaxRequests, status \in {"QUEUED", "FAILED"} : Dispatched(i, status)
    \/ UNCHANGED <<nvars, wrest, pvars, cvars, rvars>> /\ \E d \in CreateWaits : Wait(d)

Init == NInit /\ WInit /\ PInit /\ IInit /\ CInit /\ RInit /\ endpoint = "ok"

Next == NNext

Spec == Init /\ [][Next]_vars

InitWebhook ==
    NDelivered /\ WInit /\ PInit /\ IInit /\ CInit /\ RInit /\ endpoint \in Endpoints

NextWebhook == WNext

SpecWebhook == InitWebhook /\ [][NextWebhook]_vars

InitPair == Init

SpecPair == InitPair /\ [][PNext]_vars

InitInbound ==
    /\ WInit /\ PInit /\ IInit /\ CInit /\ RInit /\ endpoint = "ok"
    /\ notif = AcceptedNotification
    /\ attempts = SetToBag({DeliveryAttempt("QUEUED", NoError)})
    /\ dtasks = [k \in 0..MAX_RETRIES |-> 0]
    /\ mtasks = 0
    /\ druns = [r \in Runs |-> IdleRun]
    /\ providerCalls = 1
    /\ providerOk = TRUE
    /\ redeliveries = 0
    /\ inboundCount = 0
    /\ cancelAccepted = FALSE
    /\ noopRuns = FALSE
    /\ cancelledPending = FALSE
    /\ countdown = Null
    /\ failedEvents = [w \in Subscribers |-> 0]
    /\ unknownMarks = 0
    /\ msg91Events = 0
    /\ deliveredAt = 0
    /\ failedPosts = [w \in Subscribers |-> 0]
    /\ crashes = 0

SpecInbound == InitInbound /\ [][INext]_vars

\* the webhook delivery engine, with inbound callbacks and cancel requests
\* for the notification
XNext ==
    \/ UNCHANGED <<nvars, pvars, ivars, cvars, rvars>> /\ CheckWebhookDeliveries
    \/ UNCHANGED <<nvars, pvars, ivars, cvars, rvars>> /\ SendWebhookNotification
    \/ UNCHANGED <<nvars, pvars, ivars, cvars, rvars>>
            /\ \E r \in WRuns : \E t \in BagToSet(wtasks) : WLoad(r, t)
    \/ UNCHANGED <<nvars, pvars, ivars, cvars, rvars>>
            /\ \E r \in WRuns, resp \in {0, 200, 404, 429, 500} : WPost(r, resp)
    \/ UNCHANGED <<wvars, pvars, ivars, cvars, rvars>> /\ Revoke
    \/ UNCHANGED <<wvars, pvars, ivars, cvars, rvars>>
            /\ \E event_title \in EventTitles, reason \in BOOLEAN :
                    Inbound(event_title, reason)

InitCancel ==
    NDelivered /\ WInit /\ PInit /\ IInit /\ CInit /\ RInit /\ endpoint \in {"ok", "error"}

SpecCancel == InitCancel /\ [][XNext]_vars

InitCreate == Init

RNext ==
    \/ UNCHANGED <<nvars, wvars, pvars, ivars, cvars>>
            /\ \E p \in ProviderIds, supported_types \in SUBSET Types, is_active \in BOOLEAN :
                    SeedProvider(p, supported_types, is_active)
    \/ UNCHANGED <<nvars, wvars, pvars, ivars, cvars>>
            /\ \E provider_id \in ExplicitIds, type \in Types : Resolve(provider_id, type)

InitProvider == Init

SpecProvider == InitProvider /\ [][RNext]_vars

SpecCreate == InitCreate /\ [][CNext]_vars

\* ------------------------------------------------------------ properties

\* a worker takes a send_notification_task message in this step
DispatcherStarts ==
    \/ \E k \in 0..MAX_RETRIES : dtasks'[k] < dtasks[k]
    \/ redeliveries' = redeliveries + 1

\* a dispatcher run moves on in this step (update_status(SENDING) or the
\* provider result)
DispatcherWrites == druns' # druns

\* nothing is queued and no dispatcher run is in progress
Quiescent ==
    /\ Queued(dtasks) = 0
    /\ mtasks = 0
    /\ \A r \in Runs : druns[r].pc = "idle"

\* C1: under any interleaving of a cancel with a dispatcher run, once
\* CANCELLED is committed no later write of the dispatcher run (SENDING,
\* QUEUED or FAILED) replaces it.
C1_CancelledSurvivesDispatcher ==
    [][(notif.status = "CANCELLED" /\ DispatcherWrites)
            => notif'.status = "CANCELLED"]_vars

\* C2: an inbound provider event applied to a DELIVERED or CANCELLED
\* notification leaves the status unchanged.
C2_InboundKeepsAbsorbingStatus ==
    [][(inboundCount' = inboundCount + 1 /\ notif.status \in {"DELIVERED", "CANCELLED"})
            => notif'.status = notif.status]_vars

\* C3: when the provider fails on every dispatcher attempt (and nothing else
\* touches the notification), the chain of retries runs to exhaustion: the
\* notification ends FAILED with retry_count 3, an error_message and exactly
\* 4 DeliveryAttempt rows.
C3_ExhaustedChain ==
    (/\ Quiescent
     /\ providerCalls > 0
     /\ ~providerOk
     /\ ~cancelAccepted
     /\ inboundCount = 0
     /\ redeliveries = 0)
        => /\ notif.status = "FAILED"
           /\ notif.retry_count = MAX_RETRIES
           /\ notif.error_message # NoError
           /\ BagCardinality(attempts) = MAX_RETRIES + 1

\* C4: a dispatcher run that finds a status other than PENDING or QUEUED
\* changes nothing: no status write, no DeliveryAttempt, no provider call,
\* and it returns normally, so neither a retry nor mark_notification_failed
\* is queued.
C4_IneligibleRunIsNoOp ==
    [][(DispatcherStarts /\ notif.status \notin {"PENDING", "QUEUED"})
            => /\ notif' = notif
               /\ attempts' = attempts
               /\ providerCalls' = providerCalls
               /\ druns' = druns
               /\ mtasks' = mtasks
               /\ \A k \in 0..MAX_RETRIES : dtasks'[k] <= dtasks[k]]_vars

\* C4, witness: a run found the notification FAILED and ended at the status
\* check
C4_Witness ==
    /\ noopRuns
    /\ notif.status = "FAILED"
    /\ inboundCount = 0
    /\ ~cancelAccepted

\* C5: of two dispatcher runs of one notification, the run that starts after
\* the other has moved the status on from PENDING (to SENDING, QUEUED or
\* FAILED) is a no-op: it starts no work on the row and calls no provider.
C5_SecondRunIsNoOp ==
    [][(/\ DispatcherStarts
        /\ providerCalls + Cardinality({r \in Runs : druns[r].pc # "idle"}) > 0
        /\ inboundCount = 0
        /\ ~cancelAccepted
        /\ notif.status \in {"SENDING", "QUEUED", "FAILED"})
            => (druns' = druns /\ notif' = notif)]_vars

\* C6: once a WebhookDelivery is ACKNOWLEDGED its status never changes and
\* no further POST is made for it, whatever the interleaving of
\* send_single_webhook runs.
C6_AcknowledgedIsFinal ==
    [][wd.status = "ACKNOWLEDGED"
            => (wd'.status = "ACKNOWLEDGED" /\ posts' = posts)]_vars

\* one chain of send_single_webhook runs was started for the delivery (the
\* sweep queued send_webhook_notification once and no message twice), it has
\* made a POST, and nothing of it is left: no message queued, no run in
\* progress, and nothing the sweep would queue again
ChainStopped ==
    /\ enqueued = 1
    /\ posts >= 1
    /\ wntasks = 0
    /\ wtasks = EmptyBag
    /\ \A r \in WRuns : wruns[r].pc = "idle"
    /\ ~(wd.status = "RETRYING" /\ wd.next_retry_at # Null)

\* C7: a POST answered 404 makes the WebhookDelivery FAILED on that first
\* attempt; nothing is queued again, at once or after a backoff delay.
C7_ClientErrorFailsAtOnce ==
    (endpoint = "not_found" /\ enqueued = 1 /\ posts >= 1)
        => /\ wd.status = "FAILED"
           /\ posts = 1
           /\ wtasks = EmptyBag

\* C8: an endpoint that answers 500 to the first six attempts and 200 to the
\* seventh leaves the WebhookDelivery ACKNOWLEDGED with attempt_count 7 and
\* immediate_attempts 6, the seventh attempt being the first one made after
\* a backoff delay.
C8_AcknowledgedBySeventhAttempt ==
    (endpoint = "six_errors_then_ok" /\ ChainStopped)
        => /\ wd.status = "ACKNOWLEDGED"
           /\ wd.attempt_count = 7
           /\ wd.immediate_attempts = IMMEDIATE_ATTEMPTS
           /\ posts = 7

\* C9: no retry of a WebhookDelivery is scheduled past its 3-hour budget:
\* every next_retry_at written is at most created_at + 10800, and a failed
\* attempt made later than 10800 s after the creation of the row (so that
\* the time elapsed plus any next delay exceeds the budget) sets FAILED and
\* schedules nothing.
C9_NoRetryPastBudget ==
    /\ [](wd.next_retry_at # Null => wd.next_retry_at <= wd.created_at.t + MAX_RETRY_DELAY)
    /\ [][(/\ posts' = posts + 1
           /\ 200 \notin Responses(endpoint, posts + 1)
           /\ now - wd.created_at.t > MAX_RETRY_DELAY)
                => (wd'.status = "FAILED" /\ wtasks' = wtasks)]_vars

\* endpoints that never answer 200 and answer only 5xx, 429 or not at all
Retryable == {"error", "rate_limited", "timeout"}

\* C10: a WebhookDelivery whose endpoint only ever gives retryable failures
\* ends FAILED: when its chain of retries has stopped, the status is FAILED.
C10_ChainEndsFailed ==
    (endpoint \in Retryable /\ ChainStopped) => wd.status = "FAILED"

\* C12: for every (webhook, notification) pair at most one WebhookDelivery
\* row exists, under any interleaving of the send_webhook_notification runs
\* of the notification.
C12_OneDeliveryPerPair ==
    \A w \in Webhooks : deliveries[w] <= 1

\* the re-attempt of the delivery is lost: no send_single_webhook message is
\* queued for it and no run is in progress
RetryLost ==
    /\ wntasks = 0
    /\ wtasks = EmptyBag
    /\ \A r \in WRuns : wruns[r].pc = "idle"

\* C13: a WebhookDelivery left in RETRYING whose re-attempt is lost is
\* re-enqueued by the periodic sweep: its next_retry_at is set, so that the
\* sweep's query (RETRYING and next_retry_at <= now) matches it once that
\* time has come.
C13_SweepRecoversLostRetry ==
    (wd.status = "RETRYING" /\ RetryLost) => wd.next_retry_at # Null

\* the request h passes the guard in this step
PassesGuard(h) == handlers[h].pc = "idle" /\ handlers'[h].pc = "mark"

\* C14: an inbound callback that arrives within 3 hours of the moment a
\* callback with the same source id and event type was applied does not
\* pass the guard, however far apart within the 3 hours the two arrive: the
\* notification is mutated at most once.
C14_ReplayWithinWindowIsDiscarded ==
    [][\A h \in Handlers :
          PassesGuard(h) =>
              LET applied == lastApplied[handlers'[h].key.event_title]
              IN  applied = Null \/ now - applied >= WEBHOOK_KEY_TTL]_vars

\* C15: of two identical callbacks handled concurrently at most one passes
\* the guard: no two requests in progress are past the guard with the same
\* key.
C15_GuardIsAtomic ==
    \A h1, h2 \in Handlers :
        (h1 # h2 /\ handlers[h1].pc = "mark" /\ handlers[h2].pc = "mark")
            => handlers[h1].key # handlers[h2].key

\* create_notification is called in this step
CreateCalled == requests' = requests + 1

\* a stored notification with the content c is not FAILED and was created
\* within the last w minutes
Matching(c, w) ==
    \E i \in DOMAIN stored :
        /\ stored[i].content = c
        /\ stored[i].status # "FAILED"
        /\ now - stored[i].created_at <= w * 60

\* C16: with duplicate checking on and a window of w minutes, a call that
\* matches a stored non-FAILED notification created within the last w
\* minutes raises ValidationException, stores nothing and queues no
\* dispatcher task; when the only matches are FAILED or older, the call goes
\* on, stores the notification and queues its dispatcher task.
C16_DuplicateWithinWindowRejected ==
    /\ [][(/\ CreateCalled
           /\ call'.check_duplicates
           /\ call'.deduplication_window # NoWindow)
            => IF Matching(call'.content, call'.deduplication_window)
               THEN /\ call'.result = "ValidationException"
                    /\ stored' = stored
                    /\ ctasks' = ctasks
                    /\ creqs' = creqs
               ELSE /\ call'.result = "passed"
                    /\ \E r \in Creators :
                          /\ creqs[r].pc = "idle"
                          /\ creqs'[r] = [pc |-> "insert", content |-> call'.content]]_vars
    /\ [][\A r \in Creators :
            (creqs[r].pc = "insert" /\ creqs'[r].pc = "idle")
                => /\ stored' = Append(stored, [content |-> creqs[r].content,
                                                status |-> "PENDING",
                                                created_at |-> now])
                   /\ ctasks' = ctasks + 1]_vars

\* C16, witness: the second call, made some time after the first one was
\* stored, was rejected as a duplicate
C16_Witness ==
    /\ call.result = "ValidationException"
    /\ requests = 2
    /\ Len(stored) = 1
    /\ now > stored[1].created_at

\* C17: a call without an explicit deduplication window is checked against
\* the default window of 30 minutes: when it matches a non-FAILED
\* notification created within the last 30 minutes it is rejected.
C17_DefaultWindowApplies ==
    [][(/\ CreateCalled
        /\ call'.check_duplicates
        /\ call'.deduplication_window = NoWindow
        /\ Matching(call'.content, DEDUPLICATION_WINDOW_MINUTES))
            => call'.result = "ValidationException"]_vars

\* C18: a cancel request is rejected for a DELIVERED or CANCELLED
\* notification (it writes nothing: no step of the model) and accepted in
\* every other status, and an accepted cancel sets the status to CANCELLED.
C18_CancelRejectsAbsorbing ==
    /\ [](ENABLED Revoke <=> notif.status \notin {"DELIVERED", "CANCELLED"})
    /\ [][Revoke => notif'.status = "CANCELLED"]_vars
    /\ [][(notif'.status = "CANCELLED" /\ notif.status # "CANCELLED")
            => notif.status # "DELIVERED"]_vars

\* C18, witness: a cancel was accepted for a notification whose dispatcher
\* run had failed, and the row is CANCELLED (update_status stores an
\* error_message for FAILED only, so the text of the failure stays)
C18_Witness ==
    /\ cancelAccepted
    /\ notif.status = "CANCELLED"
    /\ notif.error_message = ExceptionText
    /\ providerCalls > 0
    /\ inboundCount = 0

\* C19: after a successful cancel of a notification, its WebhookDelivery
\* that was PENDING or RETRYING is FAILED with the error "notification
\* cancelled".
C19_CancelFailsOpenDeliveries ==
    [][(Revoke /\ wd.status \in {"PENDING", "RETRYING"})
            => /\ wd'.status = "FAILED"
               /\ wd'.error_message = "notification cancelled"]_vars

\* C20: a successful cancel of a notification queues a "cancelled" webhook
\* event for the active webhook of the owning service: something is queued
\* or sent for the subscriber in the step of the cancel.
C20_CancelQueuesWebhookEvent ==
    [][Revoke => (wntasks' > wntasks \/ wtasks' # wtasks \/ posts' > posts)]_vars

\* C21: after a cancel request has been accepted for a PENDING notification,
\* a later inbound "delivered" callback is ignored: no callback makes the
\* notification DELIVERED.
C21_DeliveredIgnoredAfterCancel ==
    [][(cancelledPending /\ inboundCount' = inboundCount + 1)
            => notif'.status # "DELIVERED"]_vars

\* the DeliveryAttempt row a run leaves when it ends with an exception
FailedAttempt == DeliveryAttempt("FAILED", ExceptionText)

\* the dispatcher run in slot r ends in this step
RunEnds(r) == druns[r].pc = "provider" /\ druns'[r].pc = "idle"

\* ... and it ends with an exception
RunFails(r) ==
    /\ RunEnds(r)
    /\ CopiesIn(FailedAttempt, attempts') = CopiesIn(FailedAttempt, attempts) + 1

\* C22: a failed run of send_notification_task with retry index r < 3
\* schedules one retry (index r + 1) with countdown 300 s for r = 0, 900 s
\* for r = 1 and 1800 s for r = 2, and no mark_notification_failed; a failed
\* run with r >= 3 schedules no retry and enqueues mark_notification_failed
\* exactly once; nothing else schedules a retry or enqueues
\* mark_notification_failed.
C22_RetrySchedule ==
    [][/\ \A r \in Runs :
            LET k == druns[r].retries
            IN  /\ (RunFails(r) /\ k < 3) =>
                        /\ dtasks' = [dtasks EXCEPT ![k + 1] = @ + 1]
                        /\ mtasks' = mtasks
                        /\ countdown' = CASE k = 0 -> 300
                                          [] k = 1 -> 900
                                          [] k = 2 -> 1800
                /\ (RunFails(r) /\ k >= 3) =>
                        /\ dtasks' = dtasks
                        /\ mtasks' = mtasks + 1
       /\ (\E k \in 0..MAX_RETRIES : dtasks'[k] > dtasks[k]) => \E r \in Runs : RunFails(r)
       /\ mtasks' > mtasks => \E r \in Runs : RunFails(r)
      ]_vars

\* a run has failed at retry index 3, after the retry that was scheduled
\* with countdown 1800: mark_notification_failed is queued
C22_Witness ==
    /\ mtasks = 1
    /\ countdown = 1800
    /\ dtasks = [k \in 0..MAX_RETRIES |-> 0]

\* C23: in every reachable state the notification has retry_count <=
\* MAX_RETRIES (3).
C23_RetryCountBounded == notif.retry_count <= 3

\* every retry of the chain has run and mark_notification_failed has marked
\* the notification
C23_Witness ==
    /\ countdown = 1800
    /\ notif.status = "FAILED"
    /\ notif.error_message = MaxRetriesText
    /\ mtasks = 0

\* C24: for a PENDING notification whose provider resolves and reports
\* success, one dispatcher run (with no cancel, callback or redelivery
\* beside it) leaves the status QUEUED or DELIVERED, exactly one
\* DeliveryAttempt row, which carries the same status, no error_message, and
\* no retry scheduled.
C24_SuccessfulRun ==
    (/\ providerCalls = 1
     /\ providerOk
     /\ ~cancelAccepted
     /\ inboundCount = 0
     /\ redeliveries = 0)
        => /\ notif.status \in {"QUEUED", "DELIVERED"}
           /\ attempts = SetToBag({DeliveryAttempt(notif.status, NoError)})
           /\ notif.error_message = NoError
           /\ Queued(dtasks) = 0
           /\ mtasks = 0
           /\ countdown = Null

\* the provider has accepted the message of the first run and returned its
\* ids
C24_Witness ==
    /\ providerCalls = 1
    /\ providerOk
    /\ ~cancelAccepted
    /\ inboundCount = 0
    /\ redeliveries = 0
    /\ notif.external_id
    /\ \A r \in Runs : druns[r].pc = "idle"

\* C25: when provider resolution fails in a dispatcher run (the run ends
\* with an exception before any provider call), the notification becomes
\* FAILED and no retry of the dispatcher task is scheduled.
C25_ResolutionFailureIsFinal ==
    [][\A r \in Runs :
            (RunFails(r) /\ providerCalls' = providerCalls)
                => (notif'.status = "FAILED" /\ dtasks' = dtasks)]_vars

\* C26: when a notification names an explicit provider id whose row is
\* missing, inactive or does not list the notification's type, provider
\* selection fails; the message is never sent through a provider.
C26_ExplicitProviderMustQualify ==
    (/\ resolved.result # "none"
     /\ resolved.provider_id # NoProviderId
     /\ \/ ~resolved.row.exists
        \/ ~resolved.row.is_active
        \/ resolved.type \notin resolved.row.supported_types)
        => resolved.result \in ResolutionErrors

\* C27: the status never moves backward: once the notification is
\* DELIVERED, FAILED or SEEN, no inbound provider event sets it back to
\* QUEUED or SENDING.
C27_StatusNeverMovesBack ==
    [][(/\ inboundCount' = inboundCount + 1
        /\ notif.status \in {"DELIVERED", "FAILED", "SEEN"})
            => notif'.status \notin {"QUEUED", "SENDING"}]_vars

\* C28: after a failed webhook attempt with the immediate budget exhausted
\* (and the 3-hour budget not), the delivery is RETRYING with next_retry_at
\* = now + min(60 * 2^(attempt_count - 6), 10800), and the retry is queued
\* for that time.
C28_BackoffSchedule ==
    [][\A r \in WRuns :
            LET n == wruns[r].cur.attempt_count
                d == Min(60 * 2^(n - 6), 10800)
            IN  (/\ wruns[r].pc = "post"
                 /\ wruns'[r].pc = "idle"
                 /\ 200 \notin Responses(endpoint, posts + 1)
                 /\ wruns[r].cur.immediate_attempts >= 6
                 /\ n >= 6
                 /\ (now - wruns[r].cur.created_at.t) + d <= 10800)
                    => /\ wd'.status = "RETRYING"
                       /\ wd'.next_retry_at = now + d
                       /\ wtasks' = wtasks (+) SetToBag({Task(now + d)})]_vars

\* C29: when mark_notification_failed marks the notification FAILED, a
\* "failed" event is sent exactly once to each active webhook of the
\* notification's service, and to no inactive webhook or webhook of another
\* service.
C29_FailedEventOncePerWebhook ==
    [][mtasks' = mtasks - 1
            => \A w \in Subscribers :
                    failedEvents'[w] = failedEvents[w]
                                        + (IF w \in ActiveOfService THEN 1 ELSE 0)]_vars

\* C30: mark_notification_failed on an existing notification sets its status
\* to FAILED with the error_message "Max retries exceeded: <cause>" and
\* appends exactly one DeliveryAttempt row with status FAILED and the same
\* message; for an id that no notification has it changes nothing.
C30_MarkFailedWrites ==
    [][/\ mtasks' = mtasks - 1
            => /\ notif'.status = "FAILED"
               /\ notif'.error_message = MaxRetriesText
               /\ attempts' = attempts (+) SetToBag({DeliveryAttempt("FAILED", MaxRetriesText)})
       /\ unknownMarks' = unknownMarks + 1
            => /\ notif' = notif
               /\ attempts' = attempts
               /\ failedEvents' = failedEvents
               /\ dtasks' = dtasks
               /\ mtasks' = mtasks]_vars

\* mark_notification_failed has run once for the notification and once for
\* an id without row
C30_Witness ==
    /\ unknownMarks = 1
    /\ notif.status = "FAILED"
    /\ notif.error_message = MaxRetriesText
    /\ CopiesIn(DeliveryAttempt("FAILED", MaxRetriesText), attempts) = 1

\* the run in slot r makes a POST in this step, and the POST fails
FailedPost(r) ==
    /\ wruns[r].pc = "post"
    /\ wruns'[r].pc = "idle"
    /\ posts' = posts + 1
    /\ 200 \notin Responses(endpoint, posts + 1)

C32_NotifiesIffStatusChanged ==
    [][inboundCount' = inboundCount + 1
            => /\ notif'.status # notif.status => msg91Events' = msg91Events + 1
               /\ notif'.status = notif.status => msg91Events' = msg91Events]_vars

\* of two callbacks handled, one changed the status and was passed on to the
\* subscribers, the other was not
C32_Witness ==
    /\ inboundCount = 2
    /\ msg91Events = 1
    /\ notif.status = "DELIVERED"

\* C33: an "opened" or "clicked" callback for a notification that was
\* already DELIVERED before the event keeps the delivered_at it has.
C33_SeenKeepsDeliveredAt ==
    [][(/\ inboundCount' = inboundCount + 1
        /\ notif.status = "DELIVERED"
        /\ notif'.status = "SEEN")
            => deliveredAt' = deliveredAt]_vars

\* C34: when a POST of send_webhook_immediately to one webhook of the service
\* is answered with another status than 200 or raises, every remaining
\* active webhook of the service is still POSTed in that run (and a retry is
\* queued for the failed one).
C34_FailedPostSkipsNobody ==
    [][(\E w \in ActiveOfService : failedPosts'[w] = failedPosts[w] + 1)
            => \A v \in ActiveOfService : failedEvents'[v] = failedEvents[v] + 1]_vars

\* C35: each run of the periodic sweep triggers send_webhook_notification
\* for every notification that has been DELIVERED for at least 5 minutes and
\* has no WebhookDelivery, however many WebhookDelivery rows the other
\* DELIVERED notifications have.
C35_SweepTriggersEveryMissing ==
    [][sweeps' = sweeps + 1 => otherTriggered' = otherTriggered + 1]_vars

\* C36: a notification that enters SENDING leaves it again, also when the
\* worker crashes after the commit of SENDING and the queue redelivers the
\* task.  Stated for finite runs: the notification is not left in SENDING
\* with no dispatcher run in progress, no task queued for it and no
\* external_id by which a provider callback could find it.
C36_SendingIsLeft ==
    ~ /\ crashes > 0
      /\ redeliveries > 0
      /\ noopRuns
      /\ notif.status = "SENDING"
      /\ ~notif.external_id
      /\ \A r \in Runs : druns[r].pc = "idle"
      /\ Queued(dtasks) = 0
      /\ mtasks = 0

\* C37: mark_notification_failed does not overwrite a notification that has
\* meanwhile become DELIVERED or CANCELLED: with either status committed
\* before it runs, the status stays as it was.
C37_MarkFailedKeepsFinalStatus ==
    [][(mtasks' = mtasks - 1 /\ notif.status \in {"DELIVERED", "CANCELLED"})
            => notif'.status = notif.status]_vars

\* the call in slot q stores its notification in this step
Stores(q) == creqs[q].pc = "insert" /\ creqs'[q].pc = "idle"

\* C38: of two concurrent create_notification calls with identical channel,
\* recipient and content, both with duplicate checking and a window, at most
\* one stores a Notification: the call that comes second does not store one
\* while the Notification the other has stored is a match within its window.
C38_ConcurrentDuplicateRejected ==
    [][\A q \in Creators :
          (/\ Stores(q)
           /\ cwindow[q] # NoWindow
           /\ \E r \in Creators \ {q} : creqs[r].pc = "idle" /\ cwindow[r] # NoWindow
           /\ Len(stored) = 1
           /\ Matching(creqs[q].content, cwindow[q]))
              => Len(stored') = 1]_vars

\* C39: the attempt_count of the WebhookDelivery equals the number of POSTs
\* made for it, under any interleaving of send_single_webhook runs for the
\* delivery; compared whenever no run is between its load and its commit.
C39_AttemptCountIsPosts ==
    (wd.status # "ABSENT" /\ \A r \in WRuns : wruns[r].pc = "idle")
        => wd.attempt_count = posts

\* C40: in every reachable state the WebhookDelivery has
\* 0 <= immediate_attempts <= 6 and immediate_attempts <= attempt_count.
C40_ImmediateAttemptsBounded ==
    wd.status # "ABSENT"
        => /\ 0 <= wd.immediate_attempts
           /\ wd.immediate_attempts <= 6
           /\ wd.immediate_attempts <= wd.attempt_count

\* the subscriber has acknowledged an attempt that raised both counters to 6
C40_Witness ==
    /\ wd.status = "ACKNOWLEDGED"
    /\ wd.immediate_attempts = 6
    /\ wd.attempt_count = 6

====
